---- MODULE Spec2Model ----
(***************************************************************************)
(* The plan state engine of run-plan: the training session                 *)
(* (useTrainingSession), the schema helpers (planSchema.ts), the page's    *)
(* handlers (page.tsx, InputForm.tsx) and the editing handlers of          *)
(* TrainingTable.tsx.                                                      *)
(*                                                                         *)
(* Numbers: a distance is kept in hundredths of its unit (400 is 4 km), a  *)
(* time in minutes, a weeklyTotal in whole units.  Indices are the 0-based *)
(* indices of the source.  A React handler reads the values of the render  *)
(* it was created in (the unprimed variables) and queues its set-state     *)
(* calls; the last call for a slot wins.  One action is one whole handler. *)
(***************************************************************************)
EXTENDS Integers, Sequences, FiniteSets, TLC

VARIABLES formValues, plan, schema, step, now, aliased, last, file

vars == <<formValues, plan, schema, step, now, aliased, last, file>>

-----------------------------------------------------------------------------
(* Bounds *)

\* the clock reads 0 at the start and one more at every handler that changes
\* the document; MaxTime is the last reading
MaxTime == 2

-----------------------------------------------------------------------------
(* The document model *)

days == <<"Mon", "Tue", "Wed", "Thu", "Fri", "Sat", "Sun">>

validDays == {days[i] : i \in 1..Len(days)}

validRunTypes == {"Rest", "Easy", "Long", "Interval", "Tempo", "Race", "Strength"}

TRAINING_PLAN_SCHEMA_VERSION == "1.0.0"

\* an absent (undefined) number, text, id
Undefined == -1
NoText == "<undefined>"
NoId == <<-1, "", "", -1>>

Run(id, type, mt, distance, time, nickname) ==
  [id |-> id, type |-> type, measurementType |-> mt, distance |-> distance,
   time |-> time, nickname |-> nickname, description |-> NoText]

\* a null or undefined entry of a day bucket
NullRun == Run(NoId, "<null>", NoText, Undefined, Undefined, NoText)

IsRun(e) == e # NullRun

Week(n, d, total) == [week |-> n, days |-> d, weeklyTotal |-> total]

\* a plan value: null, or an object whose weeks are missing, not an array, or an array
NullPlan == [null |-> TRUE, kind |-> "missing", weeks |-> <<>>]
Plan(ws) == [null |-> FALSE, kind |-> "array", weeks |-> ws]

NullSettings == [null |-> TRUE, unit |-> "km", raceDistance |-> "", raceDate |-> 0]
Settings(u, rd, date) ==
  [null |-> FALSE, unit |-> u, raceDistance |-> rd, raceDate |-> date]

NullForm == [null |-> TRUE, unit |-> "km", raceDistance |-> "", raceDate |-> 0]
Form(u, rd, date) == [null |-> FALSE, unit |-> u, raceDistance |-> rd, raceDate |-> date]

NullSchema ==
  [null |-> TRUE, version |-> NoText, createdAt |-> 0, updatedAt |-> 0,
   source |-> NoText, settings |-> NullSettings, plan |-> NullPlan]

-----------------------------------------------------------------------------
(* Sequences as JavaScript arrays *)

\* arr.filter(Boolean) / arr.filter(x => x !== null && x !== undefined)
RECURSIVE FilterRuns(_)
FilterRuns(s) ==
  IF s = <<>> THEN <<>>
  ELSE IF IsRun(Head(s)) THEN <<Head(s)>> \o FilterRuns(Tail(s))
  ELSE FilterRuns(Tail(s))

\* arr[i]
At0(s, i) == IF i >= 0 /\ i < Len(s) THEN s[i + 1] ELSE NullRun

\* arr.splice(i, 1): the array that is left
SpliceOut(s, i) ==
  IF i >= 0 /\ i < Len(s)
  THEN [k \in 1..(Len(s) - 1) |-> IF k <= i THEN s[k] ELSE s[k + 1]]
  ELSE s

\* arr.splice(i, 0, x): an index past the end appends
SpliceIn(s, i, x) ==
  LET at == IF i > Len(s) THEN Len(s) ELSE i
  IN  [k \in 1..(Len(s) + 1) |->
         IF k <= at THEN s[k] ELSE IF k = at + 1 THEN x ELSE s[k - 1]]

\* Math.round of a number given in hundredths
MathRound(hundredths) == (hundredths + 50) \div 100

-----------------------------------------------------------------------------
(* TrainingTable.tsx: weekly total *)

RECURSIVE DayTotal(_)
DayTotal(runs) ==
  IF runs = <<>> THEN 0
  ELSE (IF IsRun(Head(runs)) /\ Head(runs).distance # Undefined
        THEN Head(runs).distance ELSE 0) + DayTotal(Tail(runs))

RECURSIVE DaysTotal(_, _)
DaysTotal(d, keys) ==
  IF keys = {} THEN 0
  ELSE LET k == CHOOSE k \in keys : TRUE
       IN  DayTotal(d[k]) + DaysTotal(d, keys \ {k})

WeeklyTotalOf(d) == MathRound(DaysTotal(d, DOMAIN d))

recalculateWeeklyTotal(week) == [week EXCEPT !.weeklyTotal = WeeklyTotalOf(week.days)]

-----------------------------------------------------------------------------
(* planSchema.ts *)

cleanPlanData(p) ==
  [p EXCEPT !.weeks =
     [i \in 1..Len(p.weeks) |->
        [p.weeks[i] EXCEPT !.days =
           [k \in DOMAIN p.weeks[i].days |-> FilterRuns(p.weeks[i].days[k])]]]]

createSchemaFromPlan(settings, p, source, t) ==
  [null |-> FALSE, version |-> TRAINING_PLAN_SCHEMA_VERSION, createdAt |-> t,
   updatedAt |-> t, source |-> source, settings |-> settings,
   plan |-> cleanPlanData(p)]

\* the revision written as a fresh wrapping, whose source defaults to generated
updateSchemaAfterEditRewraps(s, p, t) ==
  [createSchemaFromPlan(s.settings, p, "generated", t)
     EXCEPT !.createdAt = s.createdAt]

updateSchemaAfterEdit(s, p, t) ==
  [s EXCEPT !.updatedAt = t,
            !.source = IF s.source = "generated" THEN "edited" ELSE s.source,
            !.plan = cleanPlanData(p)]

\* runSchema: the type is of the enum, and a given measurementType has its field
RunValid(r) ==
  /\ r.type \in validRunTypes
  /\ r.measurementType = "distance" => r.distance # Undefined
  /\ r.measurementType = "time" => r.time # Undefined

\* weekSchema: every key of days is a day, every entry a run or null
WeekValid(w) ==
  /\ DOMAIN w.days \subseteq validDays
  /\ \A k \in DOMAIN w.days : \A i \in 1..Len(w.days[k]) :
       IsRun(w.days[k][i]) => RunValid(w.days[k][i])

\* the validation without the settings object's checks
validateSchemaNoSettings(json) ==
  /\ ~json.null
  /\ json.version # NoText
  /\ json.source \in {"generated", "imported", "edited"}
  /\ ~json.plan.null
  /\ json.plan.kind = "array"
  /\ \A i \in 1..Len(json.plan.weeks) : WeekValid(json.plan.weeks[i])

\* trainingPlanSchema.parse succeeds and the version is not empty
validateSchema(json) ==
  /\ ~json.null
  /\ json.version # NoText
  /\ json.source \in {"generated", "imported", "edited"}
  /\ ~json.settings.null
  /\ json.settings.unit \in {"km", "miles"}
  /\ ~json.plan.null
  /\ json.plan.kind = "array"
  /\ \A i \in 1..Len(json.plan.weeks) : WeekValid(json.plan.weeks[i])

\* the issues of a week that the parse collects: a key of days that is not a
\* day, an entry of a bucket that is neither a run nor null
WeekIssues(i, w) ==
  {<<"days", i, k, 0>> : k \in DOMAIN w.days \ validDays}
  \cup UNION {{<<"run", i, k, j>> :
                 j \in {n \in 1..Len(w.days[k]) :
                          /\ IsRun(w.days[k][n])
                          /\ ~RunValid(w.days[k][n])}} :
              k \in DOMAIN w.days}

\* the issues of the first week that has one, and no other
schemaIssuesFirstWeek(json) ==
  IF json.null THEN {<<"", 0, "", 0>>}
  ELSE (IF json.version = NoText THEN {<<"version", 0, "", 0>>} ELSE {})
       \cup (IF json.source \notin {"generated", "imported", "edited"}
             THEN {<<"source", 0, "", 0>>} ELSE {})
       \cup (IF json.settings.null THEN {<<"settings", 0, "", 0>>}
             ELSE IF json.settings.unit \notin {"km", "miles"}
             THEN {<<"settings.unit", 0, "", 0>>} ELSE {})
       \cup (IF json.plan.null THEN {<<"plan", 0, "", 0>>}
             ELSE IF json.plan.kind # "array" THEN {<<"plan.weeks", 0, "", 0>>}
             ELSE LET bad == {i \in 1..Len(json.plan.weeks) :
                                WeekIssues(i, json.plan.weeks[i]) # {}}
                  IN  IF bad = {} THEN {}
                      ELSE LET i == CHOOSE n \in bad : \A m \in bad : n <= m
                           IN  WeekIssues(i, json.plan.weeks[i]))

\* z.record over the enum of the days: the issues of the days a week lacks,
\* which the parse raises in a build whose zod takes such a record as
\* exhaustive, and does not raise in a build whose zod takes it as partial
missingDayIssues(json) ==
  IF json.null \/ json.plan.null THEN {}
  ELSE UNION {{<<"days", i, k, 0>> : k \in validDays \ DOMAIN json.plan.weeks[i].days} :
                i \in 1..Len(json.plan.weeks)}

\* validateSchema's error: the issues of the ZodError, every one a message
schemaIssues(json) ==
  IF json.null THEN {<<"", 0, "", 0>>}
  ELSE (IF json.version = NoText THEN {<<"version", 0, "", 0>>} ELSE {})
       \cup (IF json.source \notin {"generated", "imported", "edited"}
             THEN {<<"source", 0, "", 0>>} ELSE {})
       \cup (IF json.settings.null THEN {<<"settings", 0, "", 0>>}
             ELSE IF json.settings.unit \notin {"km", "miles"}
             THEN {<<"settings.unit", 0, "", 0>>} ELSE {})
       \cup (IF json.plan.null THEN {<<"plan", 0, "", 0>>}
             ELSE IF json.plan.kind # "array" THEN {<<"plan.weeks", 0, "", 0>>}
             ELSE UNION {WeekIssues(i, json.plan.weeks[i]) :
                           i \in 1..Len(json.plan.weeks)})

-----------------------------------------------------------------------------
(* useTrainingSession: the session slots and the coordinator's methods.     *)
(* A method works on the record of pending slot values p; r is the render   *)
(* whose values its closure reads.                                          *)

Render ==
  [formValues |-> formValues, plan |-> plan, schema |-> schema, step |-> step,
   shared |-> aliased, planSet |-> FALSE, thrown |-> FALSE]

\* planGenerator.generatePlan: one week per week left until the race, each week
\* with the seven day keys, the training day's workout and its total
GenDistance == 400

generatePlan(values) ==
  Plan([w \in 1..values.raceDate |->
          recalculateWeeklyTotal(
            Week(w,
                 [k \in validDays |->
                    IF k = "Mon"
                    THEN <<Run(<<w - 1, "Mon", "Easy", 0>>, "Easy", "distance",
                               GenDistance, Undefined, NoText)>>
                    ELSE <<>>],
                 0))])

updateFormValues(p, values) == [p EXCEPT !.formValues = values]

generateAndSetPlan(p, values, t) ==
  LET nextPlan == generatePlan(values)
      settings == Settings(values.unit, values.raceDistance, values.raceDate)
  IN  [p EXCEPT !.formValues = values,
                !.plan = nextPlan,
                !.planSet = TRUE,
                !.shared = FALSE,
                !.schema = createSchemaFromPlan(settings, nextPlan, "generated", t),
                !.step = IF Len(nextPlan.weeks) > 0 THEN "edit" ELSE p.step]

updatePlan(p, r, next, t) ==
  IF ~next.null /\ ~r.schema.null
  THEN [p EXCEPT !.plan = next, !.planSet = TRUE, !.shared = FALSE,
                 !.schema = updateSchemaAfterEdit(r.schema, next, t)]
  ELSE [p EXCEPT !.plan = next, !.planSet = TRUE, !.shared = FALSE]

exportPlanSchema(r) == r.schema

\* the validation errors importPlanSchema collects: an invalid day key, or a
\* workout of a day whose type is not a run type (a null entry is passed over)
WeekErrors(w) ==
  {<<w.week, "day", k, 0>> : k \in DOMAIN w.days \ validDays}
  \cup UNION {{<<w.week, "run", k, i>> :
                 i \in {j \in 1..Len(w.days[k]) :
                          /\ IsRun(w.days[k][j])
                          /\ w.days[k][j].type \notin validRunTypes}} :
              k \in DOMAIN w.days}

importErrors(incoming) ==
  UNION {WeekErrors(incoming.plan.weeks[i]) : i \in 1..Len(incoming.plan.weeks)}

\* the step set without looking at the incoming weeks
stepAfterImportAlways(p, incoming) == "edit"

\* setStep("edit") only when the incoming plan has a week
stepAfterImport(p, incoming) ==
  IF Len(incoming.plan.weeks) > 0 THEN "edit" ELSE p.step

importPlanSchema(p, incoming) ==
  IF /\ ~incoming.plan.null
     /\ \/ incoming.plan.kind # "array"
        \/ importErrors(incoming) # {}
  THEN [p EXCEPT !.thrown = TRUE]
  ELSE IF incoming.settings.null
  THEN [p EXCEPT !.schema = incoming]
  ELSE LET nextFormValues ==
             Form(incoming.settings.unit, incoming.settings.raceDistance,
                  incoming.settings.raceDate)
       IN  IF ~incoming.plan.null
           THEN [p EXCEPT !.schema = incoming,
                          !.formValues = nextFormValues,
                          !.plan = incoming.plan,
                          !.planSet = TRUE,
                          !.shared = TRUE,
                          !.step = stepAfterImport(p, incoming)]
           ELSE [p EXCEPT !.schema = incoming,
                          !.formValues = nextFormValues,
                          !.plan = NullPlan,
                          !.planSet = TRUE,
                          !.shared = FALSE]

\* the reset without setSchema(null)
resetSessionKeepsSchema(p) ==
  [p EXCEPT !.formValues = NullForm, !.plan = NullPlan, !.planSet = TRUE,
            !.shared = FALSE, !.step = "configure"]

resetSession(p) ==
  [p EXCEPT !.formValues = NullForm, !.plan = NullPlan, !.planSet = TRUE,
            !.schema = NullSchema, !.shared = FALSE, !.step = "configure"]

\* the effect without the test of the plan's weeks
StepEffectAnyPlan(p) ==
  IF p.planSet /\ ~p.plan.null /\ p.step = "configure"
  THEN "edit" ELSE p.step

\* the effect on [plan]: a plan with weeks leaves the configure step
StepEffect(p) ==
  IF p.planSet /\ ~p.plan.null /\ Len(p.plan.weeks) > 0 /\ p.step = "configure"
  THEN "edit" ELSE p.step

\* the next render: the queued values, then the effect
Commit(p) ==
  /\ formValues' = p.formValues
  /\ plan' = p.plan
  /\ schema' = p.schema
  /\ aliased' = p.shared
  /\ step' = StepEffect(p)

-----------------------------------------------------------------------------
(* TrainingTable.tsx: the editing handlers.                                 *)
(* A handler copies a week with {...week}: the copy shares the week's days  *)
(* object, so that days[day] = runs also changes the week it was copied     *)
(* from.  A result gives the new weeks, whether the handler threw before    *)
(* it set anything, and old: the weeks it started from as it left them.     *)

Result(thrown, weeks, old) == [thrown |-> thrown, weeks |-> weeks, old |-> old]

InRange(weeks, weekIndex) == weekIndex >= 0 /\ weekIndex < Len(weeks)

\* the weeks it started from, seen through the shared days objects
Shared(weeks, updatedWeeks) ==
  [i \in 1..Len(weeks) |-> [weeks[i] EXCEPT !.days = updatedWeeks[i].days]]

Done(weeks, updatedWeeks) == Result(FALSE, updatedWeeks, Shared(weeks, updatedWeeks))

\* [...updatedWeek.days[day]] of a missing key: a TypeError
Thrown(weeks) == Result(TRUE, weeks, weeks)

NoUpdates ==
  [measurementType |-> NoText, distance |-> Undefined, time |-> Undefined,
   description |-> NoText]

\* the update that sets the measurement type and leaves the opposite field
UpdatedRunKeepsOpposite(run, updates) ==
  LET r1 == IF updates.measurementType # NoText
            THEN [run EXCEPT !.measurementType = updates.measurementType]
            ELSE run
      r2 == IF updates.distance # Undefined
            THEN [r1 EXCEPT !.distance = updates.distance] ELSE r1
      r3 == IF updates.time # Undefined
            THEN [r2 EXCEPT !.time = updates.time] ELSE r2
  IN  IF updates.description # NoText
      THEN [r3 EXCEPT !.description = updates.description] ELSE r3

UpdatedRun(run, updates) ==
  LET r1 == IF updates.measurementType # NoText
            THEN [run EXCEPT
                    !.measurementType = updates.measurementType,
                    !.time = IF updates.measurementType = "distance"
                             THEN Undefined ELSE run.time,
                    !.distance = IF updates.measurementType = "time"
                                 THEN Undefined ELSE run.distance]
            ELSE run
      r2 == IF updates.distance # Undefined
            THEN [r1 EXCEPT !.distance = updates.distance] ELSE r1
      r3 == IF updates.time # Undefined
            THEN [r2 EXCEPT !.time = updates.time] ELSE r2
  IN  IF updates.description # NoText
      THEN [r3 EXCEPT !.description = updates.description] ELSE r3

handleUpdateRun(weeks, weekIndex, day, runIndex, updates) ==
  IF ~InRange(weeks, weekIndex) THEN Done(weeks, weeks)
  ELSE LET week == weeks[weekIndex + 1]
       IN  IF day \notin DOMAIN week.days THEN Thrown(weeks)
           ELSE LET runs == week.days[day]
                IN  IF IsRun(At0(runs, runIndex))
                    THEN Done(weeks,
                           [weeks EXCEPT ![weekIndex + 1] =
                              recalculateWeeklyTotal(
                                [week EXCEPT !.days[day] =
                                   [runs EXCEPT ![runIndex + 1] =
                                      UpdatedRun(runs[runIndex + 1], updates)]])])
                    ELSE Done(weeks, weeks)

\* the nickname stored as it is given, an empty string too
handleUpdateNicknameKeepsEmpty(weeks, weekIndex, day, runIndex, nickname) ==
  LET runs == weeks[weekIndex + 1].days[day]
  IN  IF IsRun(At0(runs, runIndex))
      THEN Done(weeks,
             [weeks EXCEPT ![weekIndex + 1].days[day][runIndex + 1].nickname =
                nickname])
      ELSE Done(weeks, weeks)

handleUpdateNickname(weeks, weekIndex, day, runIndex, nickname) ==
  IF ~InRange(weeks, weekIndex) THEN Done(weeks, weeks)
  ELSE LET week == weeks[weekIndex + 1]
       IN  IF day \notin DOMAIN week.days THEN Thrown(weeks)
           ELSE LET runs == week.days[day]
                IN  IF IsRun(At0(runs, runIndex))
                    THEN Done(weeks,
                           [weeks EXCEPT ![weekIndex + 1].days[day][runIndex + 1].nickname =
                              IF nickname = "" THEN NoText ELSE nickname])
                    ELSE Done(weeks, weeks)

\* workout.distance || 5 (km or miles, here in hundredths); 30 minutes
DefaultDistance == 500
DefaultTime == 30

\* the run handleAddRun pushes; suffix is Math.random's part of the id
AddedRun(weekIndex, day, workout, suffix) ==
  LET measurementType == IF workout.measurementType # NoText
                         THEN workout.measurementType ELSE "distance"
      defaultDistance == IF workout.type = "Strength" THEN 0
                         ELSE IF workout.distance # Undefined /\ workout.distance # 0
                         THEN workout.distance ELSE DefaultDistance
      defaultTime == IF workout.time # Undefined /\ workout.time # 0
                     THEN workout.time
                     ELSE IF measurementType = "time" THEN DefaultTime ELSE Undefined
  IN  [id |-> <<weekIndex, day, workout.type, suffix>>,
       type |-> workout.type,
       measurementType |-> measurementType,
       distance |-> IF measurementType = "distance" THEN defaultDistance ELSE Undefined,
       time |-> IF measurementType = "time" THEN defaultTime ELSE Undefined,
       nickname |-> workout.nickname,
       description |-> workout.description]

handleAddRun(weeks, weekIndex, day, workout, suffix) ==
  IF ~InRange(weeks, weekIndex) THEN Done(weeks, weeks)
  ELSE LET week == weeks[weekIndex + 1]
       IN  IF day \notin DOMAIN week.days THEN Thrown(weeks)
           ELSE Done(weeks,
                  [weeks EXCEPT ![weekIndex + 1] =
                     recalculateWeeklyTotal(
                       [week EXCEPT !.days[day] =
                          Append(week.days[day],
                                 AddedRun(weekIndex, day, workout, suffix))])])

\* the remove whose splice has no count: runs.splice(runIndex)
handleRemoveRunNoCount(weeks, weekIndex, day, runIndex) ==
  LET week == weeks[weekIndex + 1]
  IN  Done(weeks,
        [weeks EXCEPT ![weekIndex + 1] =
           recalculateWeeklyTotal(
             [week EXCEPT !.days[day] = SubSeq(week.days[day], 1, runIndex)])])

handleRemoveRun(weeks, weekIndex, day, runIndex) ==
  IF ~InRange(weeks, weekIndex) THEN Done(weeks, weeks)
  ELSE LET week == weeks[weekIndex + 1]
       IN  IF day \notin DOMAIN week.days THEN Thrown(weeks)
           ELSE Done(weeks,
                  [weeks EXCEPT ![weekIndex + 1] =
                     recalculateWeeklyTotal(
                       [week EXCEPT !.days[day] =
                          SpliceOut(week.days[day], runIndex)])])

\* the reorder that inserts the moved workout before it takes it out
reorderWithinDayInsertFirst(weeks, weekIndex, day, activeRunIndex, overRunIndex) ==
  LET runs == weeks[weekIndex + 1].days[day]
  IN  Done(weeks,
        [weeks EXCEPT ![weekIndex + 1].days[day] =
           SpliceOut(SpliceIn(runs, overRunIndex, At0(runs, activeRunIndex)),
                     activeRunIndex)])

\* handleDragEnd's reorder within one day
reorderWithinDay(weeks, weekIndex, day, activeRunIndex, overRunIndex) ==
  IF ~InRange(weeks, weekIndex) THEN Done(weeks, weeks)
  ELSE LET week == weeks[weekIndex + 1]
       IN  IF day \notin DOMAIN week.days THEN Thrown(weeks)
           ELSE LET runs == week.days[day]
                IN  Done(weeks,
                      [weeks EXCEPT ![weekIndex + 1].days[day] =
                         SpliceIn(SpliceOut(runs, activeRunIndex), overRunIndex,
                                  At0(runs, activeRunIndex))])

\* the callback without the second recalculateWeeklyTotal of a same-week move
moveWorkoutWeekOnce(st, weekIndex, a) ==
  LET d == st.days[weekIndex + 1]
  IN  IF st.thrown THEN st
      ELSE IF weekIndex = a.fromWeekIndex
      THEN IF a.fromDay \notin DOMAIN d THEN [st EXCEPT !.thrown = TRUE]
           ELSE LET movedRun == At0(d[a.fromDay], a.fromRunIndex)
                    d1 == [d EXCEPT ![a.fromDay] = SpliceOut(d[a.fromDay], a.fromRunIndex)]
                    st1 == [st EXCEPT !.days[weekIndex + 1] = d1,
                                      !.totals[weekIndex + 1] = WeeklyTotalOf(d1),
                                      !.computed = Append(@, <<weekIndex,
                                                               WeeklyTotalOf(d1)>>)]
                IN  IF a.fromWeekIndex = a.toWeekIndex
                    THEN IF a.toDay \notin DOMAIN d1 THEN [st1 EXCEPT !.thrown = TRUE]
                         ELSE LET d2 == [d1 EXCEPT ![a.toDay] =
                                           SpliceIn(d1[a.toDay], a.toRunIndex, movedRun)]
                              IN  [st1 EXCEPT !.days[weekIndex + 1] = d2]
                    ELSE st1
      ELSE IF weekIndex = a.toWeekIndex
      THEN IF \/ a.fromWeekIndex < 0
              \/ a.fromWeekIndex >= Len(st.days)
              \/ a.fromDay \notin DOMAIN st.days[a.fromWeekIndex + 1]
              \/ a.toDay \notin DOMAIN d
           THEN [st EXCEPT !.thrown = TRUE]
           ELSE LET movedRun ==
                      At0(st.days[a.fromWeekIndex + 1][a.fromDay], a.fromRunIndex)
                    d2 == [d EXCEPT ![a.toDay] =
                             SpliceIn(d[a.toDay], a.toRunIndex, movedRun)]
                IN  [st EXCEPT !.days[weekIndex + 1] = d2,
                               !.totals[weekIndex + 1] = WeeklyTotalOf(d2),
                               !.computed = Append(@, <<weekIndex,
                                                        WeeklyTotalOf(d2)>>)]
      ELSE st

\* moveWorkout's callback for the week at weekIndex.  st.days are the days
\* objects, which the weeks already visited have changed; st.totals the
\* weeklyTotal of the weeks returned so far; st.computed the calls of
\* recalculateWeeklyTotal, each with its week and the total it returned.
moveWorkoutWeek(st, weekIndex, a) ==
  LET d == st.days[weekIndex + 1]
  IN  IF st.thrown THEN st
      ELSE IF weekIndex = a.fromWeekIndex
      THEN IF a.fromDay \notin DOMAIN d THEN [st EXCEPT !.thrown = TRUE]
           ELSE LET movedRun == At0(d[a.fromDay], a.fromRunIndex)
                    d1 == [d EXCEPT ![a.fromDay] = SpliceOut(d[a.fromDay], a.fromRunIndex)]
                    st1 == [st EXCEPT !.days[weekIndex + 1] = d1,
                                      !.totals[weekIndex + 1] = WeeklyTotalOf(d1),
                                      !.computed = Append(@, <<weekIndex,
                                                               WeeklyTotalOf(d1)>>)]
                IN  IF a.fromWeekIndex = a.toWeekIndex
                    THEN IF a.toDay \notin DOMAIN d1 THEN [st1 EXCEPT !.thrown = TRUE]
                         ELSE LET d2 == [d1 EXCEPT ![a.toDay] =
                                           SpliceIn(d1[a.toDay], a.toRunIndex, movedRun)]
                              IN  [st1 EXCEPT
                                     !.days[weekIndex + 1] = d2,
                                     !.totals[weekIndex + 1] = WeeklyTotalOf(d2),
                                     !.computed = Append(@, <<weekIndex,
                                                              WeeklyTotalOf(d2)>>)]
                    ELSE st1
      ELSE IF weekIndex = a.toWeekIndex
      THEN IF \/ a.fromWeekIndex < 0
              \/ a.fromWeekIndex >= Len(st.days)
              \/ a.fromDay \notin DOMAIN st.days[a.fromWeekIndex + 1]
              \/ a.toDay \notin DOMAIN d
           THEN [st EXCEPT !.thrown = TRUE]
           ELSE LET movedRun ==
                      At0(st.days[a.fromWeekIndex + 1][a.fromDay], a.fromRunIndex)
                    d2 == [d EXCEPT ![a.toDay] =
                             SpliceIn(d[a.toDay], a.toRunIndex, movedRun)]
                IN  [st EXCEPT !.days[weekIndex + 1] = d2,
                               !.totals[weekIndex + 1] = WeeklyTotalOf(d2),
                               !.computed = Append(@, <<weekIndex,
                                                        WeeklyTotalOf(d2)>>)]
      ELSE st

\* weeks.map: the weeks in index order
RECURSIVE moveWorkoutMap(_, _, _)
moveWorkoutMap(st, weekIndex, a) ==
  IF weekIndex >= Len(st.days) THEN st
  ELSE moveWorkoutMap(moveWorkoutWeek(st, weekIndex, a), weekIndex + 1, a)

MoveArgs(fromWeekIndex, fromDay, fromRunIndex, toWeekIndex, toDay, toRunIndex) ==
  [fromWeekIndex |-> fromWeekIndex, fromDay |-> fromDay,
   fromRunIndex |-> fromRunIndex, toWeekIndex |-> toWeekIndex, toDay |-> toDay,
   toRunIndex |-> toRunIndex]

\* the days objects and totals when weeks.map has ended
moveWorkoutState(weeks, a) ==
  moveWorkoutMap(
    [thrown |-> FALSE,
     days |-> [i \in 1..Len(weeks) |-> weeks[i].days],
     totals |-> [i \in 1..Len(weeks) |-> weeks[i].weeklyTotal],
     computed |-> <<>>],
    0, a)

moveWorkout(weeks, a) ==
  LET st == moveWorkoutState(weeks, a)
      old == [i \in 1..Len(weeks) |-> [weeks[i] EXCEPT !.days = st.days[i]]]
  IN  Result(st.thrown,
             [i \in 1..Len(weeks) |->
                [weeks[i] EXCEPT !.days = st.days[i], !.weeklyTotal = st.totals[i]]],
             old)

-----------------------------------------------------------------------------
(* utils and handleUnitToggle *)

\* kmToMiles multiplies by 0.621371 = KmToMiles / KmToMilesScale, milesToKm divides
KmToMiles == 621371
KmToMilesScale == 1000000

\* Math.round(a / b)
RoundRatio(a, b) == (a + b \div 2) \div b

\* Math.round(converted * 10) / 10: a whole number of tenths, in hundredths
ConvertedDistance(distance, currentUnit) ==
  IF currentUnit = "km"
  THEN 10 * RoundRatio(distance * KmToMiles, 10 * KmToMilesScale)
  ELSE 10 * RoundRatio(distance * (KmToMilesScale \div 10), KmToMiles)

\* Math.round(newWeeklyTotal): the sum of the converted distances before rounding
ConvertedTotal(hundredths, currentUnit) ==
  IF currentUnit = "km"
  THEN RoundRatio(hundredths * KmToMiles, 100 * KmToMilesScale)
  ELSE RoundRatio(hundredths * (KmToMilesScale \div 100), KmToMiles)

\* if (!run.distance) return run
Converts(run) == run.distance # Undefined /\ run.distance # 0

RECURSIVE ConvertedSum(_)
ConvertedSum(runs) ==
  IF runs = <<>> THEN 0
  ELSE (IF Converts(Head(runs)) THEN Head(runs).distance ELSE 0)
       + ConvertedSum(Tail(runs))

RECURSIVE ConvertedDaysSum(_, _)
ConvertedDaysSum(d, keys) ==
  IF keys = {} THEN 0
  ELSE LET k == CHOOSE k \in keys : TRUE
       IN  ConvertedSum(d[k]) + ConvertedDaysSum(d, keys \ {k})

ConvertedWeek(week, currentUnit) ==
  [week EXCEPT
     !.days = [k \in validDays \cup DOMAIN week.days |->
                 IF k \in DOMAIN week.days
                 THEN [i \in 1..Len(week.days[k]) |->
                         IF Converts(week.days[k][i])
                         THEN [week.days[k][i] EXCEPT
                                 !.distance = ConvertedDistance(@, currentUnit)]
                         ELSE week.days[k][i]]
                 ELSE <<>>],
     !.weeklyTotal =
        ConvertedTotal(ConvertedDaysSum(week.days, DOMAIN week.days), currentUnit)]

HasHole(weeks) ==
  \E i \in 1..Len(weeks) : \E k \in DOMAIN weeks[i].days :
    \E j \in 1..Len(weeks[i].days[k]) : ~IsRun(weeks[i].days[k][j])

\* the converted weeks; run.distance of a null entry is a TypeError
convertedWeeks(weeks, currentUnit) ==
  IF HasHole(weeks) THEN Thrown(weeks)
  ELSE Result(FALSE,
              [i \in 1..Len(weeks) |-> ConvertedWeek(weeks[i], currentUnit)],
              weeks)

\* page.tsx's onUnitChange
onUnitChange(p, r, newUnit, convertedPlan, t) ==
  IF r.formValues.null THEN p
  ELSE LET p1 == updateFormValues(p, [r.formValues EXCEPT !.unit = newUnit])
           p2 == updatePlan(p1, r, convertedPlan, t)
           currentSchema == exportPlanSchema(r)
       IN  IF currentSchema.null THEN p2
           ELSE importPlanSchema(p2,
                  [currentSchema EXCEPT !.settings.unit = newUnit, !.updatedAt = t])

\* handleUnitToggle with the two callbacks it ends in
handleUnitToggle(r, convertedPlan, newUnit, t) ==
  onUnitChange(updatePlan(r, r, convertedPlan, t), r, newUnit, convertedPlan, t)

-----------------------------------------------------------------------------
(* What the last handler was and what it was given *)

\* op: the handler; before: the session it started from; thrown: it ended in
\* an exception; rejected: an import that was refused; emitted: the plan it
\* handed to onUpdatePlan; payload: the imported file; unit: the unit toggled
\* to; updates, workout: the argument of an update, of an add; start: the plan
\* a sequence of direct calls started from; nickname: the argument of a
\* nickname update; errors: the issues a refused import showed; exported: the
\* imported file is one the session exported; computed: the totals a move
\* computed, in the order of the calls; old: the weeks a handler started from,
\* as they are when it has ended
NoWorkout ==
  [type |-> "<none>", measurementType |-> NoText, distance |-> Undefined,
   time |-> Undefined, nickname |-> NoText, description |-> NoText]

NoOp ==
  [op |-> "init", thrown |-> FALSE, rejected |-> FALSE,
   weekIndex |-> -1, day |-> "", runIndex |-> -1,
   toWeekIndex |-> -1, toDay |-> "", toRunIndex |-> -1,
   emitted |-> NullPlan, payload |-> NullSchema, unit |-> "",
   updates |-> NoUpdates, workout |-> NoWorkout, start |-> NullPlan,
   nickname |-> NoText, errors |-> {}, exported |-> FALSE, computed |-> <<>>,
   old |-> <<>>,
   before |-> [formValues |-> NullForm, plan |-> NullPlan, schema |-> NullSchema,
               step |-> "configure"]]

Op(name) ==
  [NoOp EXCEPT !.op = name,
               !.before = [formValues |-> formValues, plan |-> plan,
                           schema |-> schema, step |-> step]]

-----------------------------------------------------------------------------
(* Inputs *)

Units == {"km", "miles"}

\* the weeks left until the race, as the form's dates give them
RaceDates == {0, 2}

FormInputs == {Form(u, "5k", n) : u \in Units, n \in RaceDates}

EmptyDays == [k \in validDays |-> <<>>]

\* an exported plan of three weeks
CleanWeeks ==
  << Week(1, [EmptyDays EXCEPT
                !["Mon"] = <<Run(<<0, "Mon", "Easy", 1>>, "Easy", "distance",
                                 500, Undefined, NoText),
                             Run(<<0, "Mon", "Long", 1>>, "Long", "distance",
                                 1200, Undefined, "x")>>,
                !["Tue"] = <<Run(<<0, "Tue", "Tempo", 1>>, "Tempo", "time",
                                 Undefined, 30, NoText)>>], 17),
     Week(2, EmptyDays, 0),
     Week(3, [EmptyDays EXCEPT
                !["Mon"] = <<Run(<<2, "Mon", "Easy", 1>>, "Easy", "distance",
                                 400, Undefined, NoText)>>], 4) >>

\* a legacy file: a hole in a bucket, workouts without measurementType
LegacyWeeks ==
  << Week(1, [EmptyDays EXCEPT
                !["Mon"] = <<NullRun,
                             Run(<<0, "Mon", "Easy", 2>>, "Easy", NoText,
                                 400, Undefined, NoText)>>,
                !["Tue"] = <<Run(<<0, "Tue", "Easy", 2>>, "Easy", NoText,
                                 Undefined, 30, NoText)>>], 4) >>

\* a file whose week has two of the seven days
PartialWeeks ==
  << Week(1, [k \in {"Mon", "Tue"} |->
                IF k = "Mon"
                THEN <<Run(<<0, "Mon", "Easy", 1>>, "Easy", "distance", 400,
                           Undefined, NoText)>>
                ELSE <<>>], 4) >>

Doc(u, source, p) ==
  [null |-> FALSE, version |-> TRAINING_PLAN_SCHEMA_VERSION, createdAt |-> 0,
   updatedAt |-> 0, source |-> source, settings |-> Settings(u, "10k", 3),
   plan |-> p]

GoodDocs ==
  { Doc("km", "edited", Plan(CleanWeeks)),
    Doc("miles", "generated", Plan(CleanWeeks)),
    Doc("km", "generated", Plan(LegacyWeeks)),
    Doc("km", "edited", Plan(<<>>)),
    Doc("km", "edited", Plan(PartialWeeks)) }

BaseDoc == Doc("km", "edited", Plan(CleanWeeks))

BadKeyWeeks ==
  [CleanWeeks EXCEPT ![1].days =
     [k \in validDays \cup {"Weds"} |->
        IF k = "Weds" THEN <<>> ELSE CleanWeeks[1].days[k]]]

BadTypeWeeks ==
  [CleanWeeks EXCEPT ![1].days["Mon"] =
     <<Run(<<0, "Mon", "Jog", 1>>, "Jog", "distance", 500, Undefined, NoText)>>]

\* an invalid day key in week 1 and an unknown workout type in week 3
BadBothWeeks ==
  [BadKeyWeeks EXCEPT ![3].days["Mon"] =
     <<Run(<<2, "Mon", "Jog", 1>>, "Jog", "distance", 400, Undefined, NoText)>>]

BadDocs ==
  { NullSchema,
    [BaseDoc EXCEPT !.version = NoText],
    [BaseDoc EXCEPT !.settings = NullSettings],
    [BaseDoc EXCEPT !.plan = NullPlan],
    [BaseDoc EXCEPT !.plan = [null |-> FALSE, kind |-> "missing", weeks |-> <<>>]],
    [BaseDoc EXCEPT !.plan = [null |-> FALSE, kind |-> "notarray", weeks |-> <<>>]],
    [BaseDoc EXCEPT !.plan = Plan(BadKeyWeeks)],
    [BaseDoc EXCEPT !.plan = Plan(BadTypeWeeks)],
    [BaseDoc EXCEPT !.plan = Plan(BadBothWeeks)] }

Payloads == GoodDocs \cup BadDocs

-----------------------------------------------------------------------------
(* page.tsx and InputForm.tsx: the handlers of the configure step *)

\* storage.useLocalStorage: a slot of the session, which starts with the
\* initial value it is given
useLocalStorage(initialValue) == initialValue

Init ==
  /\ formValues = useLocalStorage(NullForm)
  /\ plan = useLocalStorage(NullPlan)
  /\ schema = useLocalStorage(NullSchema)
  /\ step = "configure"
  /\ now = 0
  /\ aliased = FALSE
  /\ last = NoOp
  /\ file = NullSchema

\* InputForm's submit: handleFormSubmit
Generate ==
  /\ step = "configure"
  /\ now < MaxTime
  /\ \E values \in FormInputs :
       /\ Commit(generateAndSetPlan(Render, values, now + 1))
       /\ last' = Op("generate")
  /\ now' = now + 1
  /\ UNCHANGED file

\* InputForm.handleImportJSON: validate the parsed file, then hand the parsed
\* file itself to importPlanSchema; an exception is caught and shown
Import ==
  /\ step = "configure"
  /\ now < MaxTime
  /\ \E json \in Payloads : \E exhaustive \in BOOLEAN :
       IF ~validateSchema(json) \/ (exhaustive /\ missingDayIssues(json) # {})
       THEN /\ UNCHANGED <<formValues, plan, schema, step, aliased>>
            /\ last' = [Op("import") EXCEPT
                          !.rejected = TRUE,
                          !.payload = json,
                          !.errors = schemaIssues(json) \cup
                                     (IF exhaustive THEN missingDayIssues(json)
                                      ELSE {})]
       ELSE LET p == importPlanSchema(Render, json)
            IN  /\ Commit(p)
                /\ last' = [Op("import") EXCEPT !.thrown = p.thrown,
                                        !.rejected = p.thrown, !.payload = json]
  /\ now' = now + 1
  /\ UNCHANGED file

\* the step buttons of the page
GoToStep ==
  /\ \E next \in {"configure", "edit", "export"} :
       /\ \/ next = "configure"
          \/ /\ next = "edit"
             /\ ~plan.null
             /\ \/ Len(plan.weeks) > 0
                \/ step = "export"
          \/ /\ next = "export"
             /\ ~plan.null
             /\ \/ Len(plan.weeks) > 0
                \/ step = "edit"
       /\ step' = next
       /\ last' = Op("step")
  /\ UNCHANGED <<formValues, plan, schema, now, aliased>>
  /\ UNCHANGED file

\* JSON.stringify, then JSON.parse: a field that is undefined is left out, an
\* entry of an array that is undefined is written, and read back, as null
JSONEntry(e) == IF IsRun(e) THEN e ELSE NullRun

JSONDocument(s) ==
  [s EXCEPT !.plan.weeks =
     [i \in 1..Len(s.plan.weeks) |->
        [s.plan.weeks[i] EXCEPT !.days =
           [k \in DOMAIN s.plan.weeks[i].days |->
              [j \in 1..Len(s.plan.weeks[i].days[k]) |->
                 JSONEntry(s.plan.weeks[i].days[k][j])]]]]]

\* PdfConfigurator.handleExportJSON: the schema slot, written to a file
ExportJSON ==
  /\ step = "export"
  /\ ~exportPlanSchema(Render).null
  /\ file' = JSONDocument(exportPlanSchema(Render))
  /\ last' = Op("export")
  /\ UNCHANGED <<formValues, plan, schema, step, now, aliased>>

\* InputForm.handleImportJSON of the file the session exported
ImportFile ==
  /\ step = "configure"
  /\ ~file.null
  /\ \E exhaustive \in BOOLEAN :
       IF ~validateSchema(file) \/ (exhaustive /\ missingDayIssues(file) # {})
       THEN /\ UNCHANGED <<formValues, plan, schema, step, aliased>>
            /\ last' = [Op("import") EXCEPT
                          !.exported = TRUE,
                          !.rejected = TRUE,
                          !.payload = file,
                          !.errors = schemaIssues(file) \cup
                                     (IF exhaustive THEN missingDayIssues(file)
                                      ELSE {})]
       ELSE LET p == importPlanSchema(Render, file)
            IN  /\ Commit(p)
                /\ last' = [Op("import") EXCEPT !.exported = TRUE,
                                          !.thrown = p.thrown,
                                          !.rejected = p.thrown,
                                          !.payload = file]
  /\ UNCHANGED <<now, file>>

\* "Start over"
Reset ==
  /\ step = "edit"
  /\ ~plan.null
  /\ Commit(resetSession(Render))
  /\ last' = Op("reset")
  /\ UNCHANGED now
  /\ UNCHANGED file

-----------------------------------------------------------------------------
(* TrainingTable: what the table shows and the handlers of the edit step *)

\* RunCell: the bucket without its null entries; runIndex counts in this list
Displayed(week, day) ==
  IF day \in DOMAIN week.days THEN FilterRuns(week.days[day]) ELSE <<>>

\* the workouts on screen, each with the indices its handlers are given
Shown ==
  {c \in (0..(Len(plan.weeks) - 1)) \X validDays \X (0..3) :
     c[3] < Len(Displayed(plan.weeks[c[1] + 1], c[2]))}

ShownRun(c) == Displayed(plan.weeks[c[1] + 1], c[2])[c[3] + 1]

\* the days the user adds to and drops on
InputDays == {"Mon", "Tue"}

\* DraggableWorkout: the measurement type the card shows
ShownMeasurementType(run) ==
  IF run.measurementType # NoText THEN run.measurementType
  ELSE IF run.distance # Undefined THEN "distance"
  ELSE IF run.time # Undefined THEN "time"
  ELSE "distance"

\* the updates the card sends: the other measurement type
\* (handleMeasurementTypeChange), a number typed into the shown field, a
\* description
UpdateInputs(run) ==
  (IF run.type # "Strength"
   THEN {[NoUpdates EXCEPT !.measurementType = newType,
                           !.distance = IF newType = "distance"
                                        THEN run.distance ELSE Undefined,
                           !.time = IF newType = "time" THEN run.time ELSE Undefined] :
           newType \in {"distance", "time"} \ {ShownMeasurementType(run)}}
        \cup (IF ShownMeasurementType(run) = "distance"
              THEN {[NoUpdates EXCEPT !.distance = x] : x \in {0, 850}}
              ELSE {[NoUpdates EXCEPT !.time = 45]})
   ELSE {})
  \cup {[NoUpdates EXCEPT !.description = "d"]}

\* WorkoutModal.handleSubmit: the workouts the modal submits
Workout(type, mt, distance, time, nickname) ==
  [type |-> type, measurementType |-> mt, distance |-> distance, time |-> time,
   nickname |-> nickname, description |-> NoText]

AddInputs ==
  { Workout("Long", "distance", 1200, Undefined, NoText),
    Workout("Easy", "distance", Undefined, Undefined, "n"),
    Workout("Strength", "distance", Undefined, Undefined, NoText),
    Workout("Tempo", "time", Undefined, Undefined, NoText) }

\* the values Math.random's suffix of a new id may take
RandomSuffixes == {1, 2}

\* the end of an editing handler: setWeeks, then onUpdatePlan → updatePlan.  A
\* handler that threw has set nothing, and has left the weeks as res.old.
EditCommit(res, op) ==
  IF res.thrown
  THEN /\ plan' = [plan EXCEPT !.weeks = res.old]
       /\ schema' = IF aliased THEN [schema EXCEPT !.plan = plan'] ELSE schema
       /\ UNCHANGED <<formValues, step, now, aliased>>
       /\ last' = [op EXCEPT !.thrown = TRUE, !.old = res.old]
  ELSE LET next == [plan EXCEPT !.weeks = res.weeks]
       IN  /\ Commit(updatePlan(Render, Render, next, now + 1))
           /\ now' = now + 1
           /\ last' = [op EXCEPT !.emitted = next, !.old = res.old]

Editing == step = "edit" /\ ~plan.null /\ now < MaxTime

At(op, c) == [Op(op) EXCEPT !.weekIndex = c[1], !.day = c[2], !.runIndex = c[3]]

UpdateRun ==
  /\ Editing
  /\ \E c \in Shown : \E updates \in UpdateInputs(ShownRun(c)) :
       EditCommit(handleUpdateRun(plan.weeks, c[1], c[2], c[3], updates),
                  At("update", c))
  /\ UNCHANGED file

UpdateNickname ==
  /\ Editing
  /\ \E c \in Shown : \E nickname \in {"", "n"} :
       EditCommit(handleUpdateNickname(plan.weeks, c[1], c[2], c[3], nickname),
                  At("nickname", c))
  /\ UNCHANGED file

AddRun ==
  /\ Editing
  /\ \E weekIndex \in 0..(Len(plan.weeks) - 1) : \E day \in InputDays :
     \E workout \in AddInputs : \E suffix \in RandomSuffixes :
       EditCommit(handleAddRun(plan.weeks, weekIndex, day, workout, suffix),
                  At("add", <<weekIndex, day, -1>>))
  /\ UNCHANGED file

RemoveRun ==
  /\ Editing
  /\ \E c \in Shown :
       EditCommit(handleRemoveRun(plan.weeks, c[1], c[2], c[3]), At("remove", c))
  /\ UNCHANGED file

\* the droppables under a dragged workout: another workout, the cell of a day
\* that shows no workout, the container of a day that shows some
OverTargets ==
  {[type |-> "workout", weekIndex |-> c[1], day |-> c[2], runIndex |-> c[3]] :
     c \in Shown}
  \cup {[type |-> IF Len(Displayed(plan.weeks[w + 1], d)) = 0
                  THEN "empty-day" ELSE "day",
         weekIndex |-> w, day |-> d, runIndex |-> -1] :
          w \in 0..(Len(plan.weeks) - 1), d \in InputDays}

Moved(c, over, toRunIndex) ==
  [Op("move") EXCEPT !.weekIndex = c[1], !.day = c[2], !.runIndex = c[3],
               !.toWeekIndex = over.weekIndex, !.toDay = over.day,
               !.toRunIndex = toRunIndex]

\* handleDragEnd, for a drop on a droppable
DragEnd ==
  /\ Editing
  /\ \E c \in Shown : \E over \in OverTargets :
       LET elsewhere == c[1] # over.weekIndex \/ c[2] # over.day
           toRunIndex ==
             IF over.type = "workout" THEN over.runIndex
             ELSE IF over.type = "empty-day" THEN 0
             ELSE IF over.day \in DOMAIN plan.weeks[over.weekIndex + 1].days
             THEN Len(plan.weeks[over.weekIndex + 1].days[over.day])
             ELSE 0
       IN  IF over.type = "workout" /\ ~elsewhere /\ c[3] # over.runIndex
           THEN EditCommit(
                  reorderWithinDay(plan.weeks, c[1], c[2], c[3], over.runIndex),
                  [Moved(c, over, over.runIndex) EXCEPT !.op = "reorder"])
           ELSE IF elsewhere
           THEN EditCommit(
                  moveWorkout(plan.weeks,
                              MoveArgs(c[1], c[2], c[3], over.weekIndex, over.day,
                                       toRunIndex)),
                  [Moved(c, over, toRunIndex) EXCEPT
                     !.computed =
                        moveWorkoutState(plan.weeks,
                                         MoveArgs(c[1], c[2], c[3], over.weekIndex,
                                                  over.day, toRunIndex)).computed])
           ELSE /\ last' = Op("drop")
                /\ UNCHANGED <<formValues, plan, schema, step, now, aliased>>
  /\ UNCHANGED file

\* the unit button: handleUnitToggle, onUpdatePlan and onUnitChange
UnitToggle ==
  /\ Editing
  /\ LET currentUnit == IF formValues.null THEN "km" ELSE formValues.unit
         newUnit == IF currentUnit = "km" THEN "miles" ELSE "km"
         res == convertedWeeks(plan.weeks, currentUnit)
         convertedPlan == [plan EXCEPT !.weeks = res.weeks]
     IN  IF res.thrown
         THEN /\ last' = [Op("convert") EXCEPT !.thrown = TRUE]
              /\ UNCHANGED <<formValues, plan, schema, step, now, aliased>>
         ELSE LET p == handleUnitToggle(Render, convertedPlan, newUnit, now + 1)
              IN  /\ Commit(p)
                  /\ now' = now + 1
                  /\ last' = [Op("convert") EXCEPT !.thrown = p.thrown,
                                          !.unit = newUnit,
                                          !.emitted = convertedPlan]
  /\ UNCHANGED file

Next ==
  \/ Generate
  \/ Import
  \/ ExportJSON
  \/ ImportFile
  \/ GoToStep
  \/ Reset
  \/ UpdateRun
  \/ UpdateNickname
  \/ AddRun
  \/ RemoveRun
  \/ DragEnd
  \/ UnitToggle

Spec == Init /\ [][Next]_vars

-----------------------------------------------------------------------------
(* The editing handlers called directly: one call on a plan, with any        *)
(* argument its parameter type admits; a unit conversion may follow a unit   *)
(* conversion.                                                               *)

\* the first distance of the plans, in hundredths
MaxDistance == 100

EngineDistances == 1..MaxDistance

\* a plan as a file may bring it: a bucket of three, one of them measured by
\* time and carrying a distance too; a week whose only workout is 5 km
EngineWeeks(d) ==
  << recalculateWeeklyTotal(
       Week(1, [EmptyDays EXCEPT
                  !["Mon"] = <<Run(<<0, "Mon", "Easy", 1>>, "Easy", "distance",
                                   d, Undefined, NoText),
                               Run(<<0, "Mon", "Long", 1>>, "Long", "distance",
                                   1200, Undefined, "x"),
                               Run(<<0, "Mon", "Tempo", 1>>, "Tempo", "time",
                                   300, 30, NoText)>>], 0)),
     Week(2, [EmptyDays EXCEPT
                !["Tue"] = <<Run(<<1, "Tue", "Easy", 1>>, "Easy", "distance",
                                 500, Undefined, NoText)>>], 5) >>

EngineUpdates ==
  {[NoUpdates EXCEPT !.measurementType = m, !.distance = d, !.time = t] :
     m \in {NoText, "distance", "time"}, d \in {Undefined, 850},
     t \in {Undefined, 45}}

EngineWorkouts ==
  {Workout(type, m, d, t, NoText) :
     type \in {"Long", "Strength"}, m \in {NoText, "distance", "time"},
     d \in {Undefined, 1200}, t \in {Undefined, 20}}

EngineDays == {"Mon", "Wed"}

\* the positions that address a workout of the plan
Stored ==
  {c \in (0..(Len(plan.weeks) - 1)) \X validDays \X (0..3) :
     c[3] < Len(plan.weeks[c[1] + 1].days[c[2]])}

EngineInit ==
  /\ \E u \in Units : formValues = Form(u, "5k", 0)
  /\ \E d \in EngineDistances : plan = Plan(EngineWeeks(d))
  /\ schema = NullSchema
  /\ step = "edit"
  /\ now = 0
  /\ aliased = FALSE
  /\ last = NoOp
  /\ file = NullSchema

\* setWeeks(updatedWeeks) of a direct call
EngineCommit(res, op) ==
  /\ plan' = [plan EXCEPT !.weeks = IF res.thrown THEN res.old ELSE res.weeks]
  /\ last' = [op EXCEPT !.thrown = res.thrown, !.emitted = plan',
                        !.old = res.old,
                        !.start = IF now = 0 THEN plan ELSE last.start]
  /\ now' = now + 1
  /\ UNCHANGED <<schema, step, aliased>>

EngineUpdate ==
  /\ now = 0
  /\ \E c \in Stored : \E updates \in EngineUpdates :
       EngineCommit(handleUpdateRun(plan.weeks, c[1], c[2], c[3], updates),
                    [At("update", c) EXCEPT !.updates = updates])
  /\ UNCHANGED formValues
  /\ UNCHANGED file

EngineAdd ==
  /\ now = 0
  /\ \E weekIndex \in 0..(Len(plan.weeks) - 1) : \E day \in EngineDays :
     \E workout \in EngineWorkouts : \E suffix \in RandomSuffixes :
       EngineCommit(handleAddRun(plan.weeks, weekIndex, day, workout, suffix),
                    [At("add", <<weekIndex, day, -1>>) EXCEPT !.workout = workout])
  /\ UNCHANGED formValues
  /\ UNCHANGED file

EngineNickname ==
  /\ now = 0
  /\ \E c \in Stored : \E nickname \in {"", "n"} :
       EngineCommit(handleUpdateNickname(plan.weeks, c[1], c[2], c[3], nickname),
                    [At("nickname", c) EXCEPT !.nickname = nickname])
  /\ UNCHANGED formValues
  /\ UNCHANGED file

EngineRemove ==
  /\ now = 0
  /\ \E c \in Stored :
       EngineCommit(handleRemoveRun(plan.weeks, c[1], c[2], c[3]), At("remove", c))
  /\ UNCHANGED formValues
  /\ UNCHANGED file

EngineReorder ==
  /\ now = 0
  /\ \E c \in Stored : \E over \in Stored :
       /\ c[1] = over[1] /\ c[2] = over[2] /\ c[3] # over[3]
       /\ EngineCommit(reorderWithinDay(plan.weeks, c[1], c[2], c[3], over[3]),
                       [At("reorder", c) EXCEPT !.toWeekIndex = over[1],
                                                !.toDay = over[2],
                                                !.toRunIndex = over[3]])
  /\ UNCHANGED formValues
  /\ UNCHANGED file

\* handleUnitToggle's conversion of the weeks, from the current unit to the other
EngineConvert ==
  /\ now < MaxTime
  /\ last.op \in {"init", "convert"}
  /\ LET newUnit == IF formValues.unit = "km" THEN "miles" ELSE "km"
     IN  /\ EngineCommit(convertedWeeks(plan.weeks, formValues.unit),
                         [Op("convert") EXCEPT !.unit = newUnit])
         /\ formValues' = [formValues EXCEPT !.unit = newUnit]
  /\ UNCHANGED file

EngineNext ==
  \/ EngineUpdate
  \/ EngineAdd
  \/ EngineNickname
  \/ EngineRemove
  \/ EngineReorder
  \/ EngineConvert

EngineSpec == EngineInit /\ [][EngineNext]_vars

-----------------------------------------------------------------------------
(* The coordinator's methods, called as useTrainingSession returns them *)

\* the plans a caller hands to updatePlan
SessionPlans == {Plan(CleanWeeks), Plan(LegacyWeeks), Plan(<<>>)}

SessionGenerate ==
  /\ now < MaxTime
  /\ \E values \in FormInputs :
       /\ Commit(generateAndSetPlan(Render, values, now + 1))
       /\ last' = Op("generate")
  /\ now' = now + 1
  /\ UNCHANGED file

SessionUpdatePlan ==
  /\ now < MaxTime
  /\ ~plan.null
  /\ \E next \in SessionPlans :
       /\ Commit(updatePlan(Render, Render, next, now + 1))
       /\ last' = [Op("update-plan") EXCEPT !.emitted = next]
  /\ now' = now + 1
  /\ UNCHANGED file

SessionImport ==
  /\ now < MaxTime
  /\ \E incoming \in Payloads :
       LET p == importPlanSchema(Render, incoming)
       IN  /\ Commit(p)
           /\ last' = [Op("import") EXCEPT !.thrown = p.thrown,
                                          !.payload = incoming]
  /\ now' = now + 1
  /\ UNCHANGED file

SessionReset ==
  /\ last.op # "reset"
  /\ Commit(resetSession(Render))
  /\ last' = Op("reset")
  /\ UNCHANGED <<now, file>>

SessionNext ==
  \/ SessionGenerate
  \/ SessionUpdatePlan
  \/ SessionImport
  \/ SessionReset

SessionSpec == Init /\ [][SessionNext]_vars

-----------------------------------------------------------------------------
(* Properties *)

Edits == {"add", "remove", "update", "nickname", "reorder", "move"}

\* the last handler was one of ops and ran to its end
Ran(ops) == last.op \in ops /\ ~last.thrown /\ ~last.emitted.null

\* a workout measured by distance (a legacy one: by the field it carries)
DistanceMeasured(run) ==
  /\ IsRun(run)
  /\ \/ run.measurementType = "distance"
     \/ run.measurementType = NoText /\ run.distance # Undefined

RECURSIVE SumOfDistances(_)
SumOfDistances(runs) ==
  IF runs = <<>> THEN 0
  ELSE (IF DistanceMeasured(Head(runs)) /\ Head(runs).distance # Undefined
        THEN Head(runs).distance ELSE 0) + SumOfDistances(Tail(runs))

RECURSIVE SumOfWeek(_, _)
SumOfWeek(d, keys) ==
  IF keys = {} THEN 0
  ELSE LET k == CHOOSE k \in keys : TRUE
       IN  SumOfDistances(d[k]) + SumOfWeek(d, keys \ {k})

\* the sum of a week's distances, rounded to the nearest whole number
RoundedSum(week) == (SumOfWeek(week.days, DOMAIN week.days) + 50) \div 100

TotalsRestored(p) ==
  \A i \in 1..Len(p.weeks) : p.weeks[i].weeklyTotal = RoundedSum(p.weeks[i])

RECURSIVE CountDays(_, _)
CountDays(d, keys) ==
  IF keys = {} THEN 0
  ELSE LET k == CHOOSE k \in keys : TRUE
       IN  Len(FilterRuns(d[k])) + CountDays(d, keys \ {k})

RECURSIVE CountWorkouts(_)
CountWorkouts(weeks) ==
  IF weeks = <<>> THEN 0
  ELSE CountDays(Head(weeks).days, DOMAIN Head(weeks).days)
       + CountWorkouts(Tail(weeks))

\* C1: after any Mutation Engine operation (add, remove, update, move,
\* convert) every week's weeklyTotal of the plan it returns equals the sum of
\* the distances of the week's distance-measured workouts, rounded to the
\* nearest whole number.
C1_TotalsRestored ==
  Ran({"add", "remove", "update", "move", "convert"}) => TotalsRestored(last.emitted)

\* C2: moveWorkout preserves the number of workouts of the whole plan, for
\* every valid pair: one is removed and one inserted.
C2_MovePreservesCount ==
  Ran({"move"}) =>
    CountWorkouts(last.emitted.weeks) = CountWorkouts(last.before.plan.weeks)

\* C3: a cross-week move takes the workout at the source position out of the
\* source bucket and inserts that same workout into the destination bucket,
\* recomputes the totals of the two weeks and leaves every other week as it was.
C3_CrossWeekMove ==
  (Ran({"move"}) /\ last.weekIndex # last.toWeekIndex) =>
    LET old == last.before.plan.weeks
        new == last.emitted.weeks
        from == last.weekIndex + 1
        to == last.toWeekIndex + 1
        moved == At0(old[from].days[last.day], last.runIndex)
    IN  /\ IsRun(moved)
        /\ new[from].days =
             [old[from].days EXCEPT
                ![last.day] = SpliceOut(old[from].days[last.day], last.runIndex)]
        /\ new[to].days =
             [old[to].days EXCEPT
                ![last.toDay] = SpliceIn(old[to].days[last.toDay],
                                         last.toRunIndex, moved)]
        /\ new[from].weeklyTotal = RoundedSum(new[from])
        /\ new[to].weeklyTotal = RoundedSum(new[to])
        /\ \A i \in 1..Len(old) : i \notin {from, to} => new[i] = old[i]

\* C4: once the unit change has completed, formValues.unit and
\* schema.settings.unit are the new unit and both the plan slot and schema.plan
\* hold the converted distances.
C4_UnitChangeTogether ==
  Ran({"convert"}) =>
    /\ formValues.unit = last.unit
    /\ schema.settings.unit = last.unit
    /\ plan = last.emitted
    /\ schema.plan = cleanPlanData(last.emitted)

\* a payload that fails the structural checks: a day key outside Mon..Sun, a
\* workout type outside the run types, weeks missing or not a sequence,
\* settings missing, plan missing
FailsStructure(json) ==
  \/ json.null
  \/ json.settings.null
  \/ json.plan.null
  \/ json.plan.kind # "array"
  \/ \E i \in 1..Len(json.plan.weeks) :
       LET d == json.plan.weeks[i].days
       IN  \/ DOMAIN d \ {"Mon", "Tue", "Wed", "Thu", "Fri", "Sat", "Sun"} # {}
           \/ \E k \in DOMAIN d : \E j \in 1..Len(d[k]) :
                /\ IsRun(d[k][j])
                /\ d[k][j].type \notin {"Rest", "Easy", "Long", "Interval",
                                        "Tempo", "Race", "Strength"}

SessionUnchanged ==
  /\ formValues = last.before.formValues
  /\ plan = last.before.plan
  /\ schema = last.before.schema
  /\ step = last.before.step

\* C5: an import whose payload fails structural validation is rejected and
\* leaves formValues, plan, schema and step unchanged.
C5_BadImportRejected ==
  (last.op = "import" /\ FailsStructure(last.payload)) =>
    (last.rejected /\ SessionUnchanged)

\* a document was there, and an import of a structurally bad file was tried
C5_Witness ==
  /\ last.op = "import"
  /\ FailsStructure(last.payload)
  /\ ~last.payload.null
  /\ last.payload.settings.null
  /\ ~last.before.schema.null
  /\ Len(last.before.plan.weeks) > 0

Normalized(p) ==
  \A i \in 1..Len(p.weeks) : \A k \in DOMAIN p.weeks[i].days :
    \A j \in 1..Len(p.weeks[i].days[k]) :
      LET run == p.weeks[i].days[k][j]
      IN  /\ IsRun(run)
          /\ run.distance # Undefined => run.measurementType = "distance"
          /\ (run.distance = Undefined /\ run.time # Undefined)
               => run.measurementType = "time"

\* C6: after a successful import the plan slot and schema.plan are the
\* normalized imported plan: no bucket holds a null entry, and a workout that
\* came without measurementType has it inferred from the field present.
C6_ImportNormalizes ==
  (last.op = "import" /\ ~last.rejected) =>
    (Normalized(plan) /\ Normalized(schema.plan))

Replaced ==
  /\ schema = last.payload
  /\ plan = last.payload.plan
  /\ formValues = Form(last.payload.settings.unit,
                       last.payload.settings.raceDistance,
                       last.payload.settings.raceDate)

\* C7 as stated: a successful import replaces the document and the step is edit.
C7_ImportEndsInEdit ==
  (last.op = "import" /\ ~last.rejected) => (Replaced /\ step = "edit")

\* C7: a successful import fully replaces the current document: schema is the
\* incoming wrapper, plan the incoming plan, formValues those of the incoming
\* settings; the step is edit when the incoming plan has a week, and is left
\* as it was when it has none.
C7_ImportReplaces ==
  (last.op = "import" /\ ~last.rejected) =>
    /\ Replaced
    /\ step = IF Len(last.payload.plan.weeks) > 0 THEN "edit" ELSE last.before.step

\* an import onto another document succeeded
C7_Witness ==
  /\ last.op = "import"
  /\ ~last.rejected
  /\ ~last.before.schema.null
  /\ last.before.schema # last.payload
  /\ last.before.formValues.raceDistance # last.payload.settings.raceDistance
  /\ Len(last.before.plan.weeks) > 0
  /\ Len(plan.weeks) > 0

WasSettled ==
  /\ ~last.before.schema.null
  /\ last.before.schema.source \in {"edited", "imported"}

IsGenerated == ~schema.null /\ schema.source = "generated"

\* C8 as stated: once the source is edited or imported, no operation makes it
\* generated again.
C8_NeverBackToGenerated == WasSettled => ~IsGenerated

\* C8: an edit or a unit change never takes the source from edited or
\* imported back to generated; it becomes generated again only when
\* generateAndSetPlan wraps a newly generated plan or when an imported
\* document carries the source generated itself.
C8_SourceMonotonic ==
  (WasSettled /\ IsGenerated) =>
    \/ last.op = "generate"
    \/ last.op = "import" /\ last.payload.source = "generated"

\* an edit of, or a unit change on, a document whose source was edited
C8_Witness ==
  /\ WasSettled
  /\ Ran(Edits \cup {"convert"})
  /\ schema.source = "edited"

\* C9: after a plan was generated, every mutation re-wraps the document: when
\* its handler has completed, schema.source is edited, schema.updatedAt is
\* refreshed and schema.plan is the normalized mutated plan.
C9_MutationRewraps ==
  (Ran(Edits \cup {"convert"}) /\ last.before.schema.source = "generated") =>
    /\ schema.source = "edited"
    /\ schema.updatedAt = now
    /\ schema.updatedAt > last.before.schema.updatedAt
    /\ schema.plan = cleanPlanData(last.emitted)

\* the week index, day key and workout index of the last edit address an
\* existing element of the plan it started from
Addressed ==
  LET weeks == last.before.plan.weeks
  IN  /\ InRange(weeks, last.weekIndex)
      /\ last.day \in DOMAIN weeks[last.weekIndex + 1].days
      /\ last.op # "add" =>
           IsRun(At0(weeks[last.weekIndex + 1].days[last.day], last.runIndex))

\* C10: an edit called with a week index, day key or workout index that does
\* not address an existing element reports an error and leaves the document
\* unchanged.
C10_BadAddressReported ==
  (last.op \in Edits /\ ~Addressed) => (last.thrown /\ SessionUnchanged)

-----------------------------------------------------------------------------
(* Properties of the handlers called directly *)

\* the bucket the last call addressed, before and after it
BucketBefore == last.before.plan.weeks[last.weekIndex + 1].days[last.day]

BucketAfter == plan.weeks[last.weekIndex + 1].days[last.day]

\* the workout the last call updated or added
Affected ==
  IF last.op = "add" THEN BucketAfter[Len(BucketAfter)]
  ELSE BucketAfter[last.runIndex + 1]

\* a workout that carries the field of its measurement type only
OneMeasure(run) ==
  /\ run.measurementType = "time" => run.distance = Undefined
  /\ run.measurementType = "distance" => run.time = Undefined

\* C11: after an add or an update, with any combination of measurementType,
\* distance and time in the argument, the affected workout (which carried one
\* measure at most before) does not carry both: measured by time it has no
\* distance, measured by distance it has no time.
C11_OneMeasure ==
  /\ (last.op = "add" /\ ~last.thrown) => OneMeasure(Affected)
  /\ (last.op = "update" /\ ~last.thrown
        /\ OneMeasure(BucketBefore[last.runIndex + 1]))
       => OneMeasure(Affected)

\* the distances of a bucket, of a week, leaving out the workouts measured by time
RECURSIVE SumWithoutTime(_)
SumWithoutTime(runs) ==
  IF runs = <<>> THEN 0
  ELSE (IF /\ IsRun(Head(runs))
           /\ Head(runs).measurementType # "time"
           /\ Head(runs).distance # Undefined
        THEN Head(runs).distance ELSE 0) + SumWithoutTime(Tail(runs))

RECURSIVE WeekWithoutTime(_, _)
WeekWithoutTime(d, keys) ==
  IF keys = {} THEN 0
  ELSE LET k == CHOOSE k \in keys : TRUE
       IN  SumWithoutTime(d[k]) + WeekWithoutTime(d, keys \ {k})

\* C12: a workout measured by time adds nothing to weeklyTotal, whatever
\* fields it carries: the total of the week an add, a remove or an update has
\* recomputed is the rounded sum of the distances of its other workouts.
C12_TimeAddsNothing ==
  (last.op \in {"add", "remove", "update"} /\ ~last.thrown) =>
    LET week == plan.weeks[last.weekIndex + 1]
    IN  week.weeklyTotal = MathRound(WeekWithoutTime(week.days, DOMAIN week.days))

-----------------------------------------------------------------------------
(* Properties of the session, continued *)

\* the positions of the workouts of a plan
Positions(p) ==
  {c \in (1..Len(p.weeks)) \X validDays \X (1..4) :
     /\ c[2] \in DOMAIN p.weeks[c[1]].days
     /\ c[3] <= Len(p.weeks[c[1]].days[c[2]])
     /\ IsRun(p.weeks[c[1]].days[c[2]][c[3]])}

IdAt(p, c) == p.weeks[c[1]].days[c[2]][c[3]].id

UniqueIds(p) ==
  \A c1 \in Positions(p) : \A c2 \in Positions(p) :
    c1 # c2 => IdAt(p, c1) # IdAt(p, c2)

\* C13: workout ids stay unique within the document: when no two workouts of
\* the plan share an id, none do after a remove, a move, a reorder, an update
\* or a conversion (an add aside, whose id rests on Math.random's suffix).
C13_UniqueIds ==
  (/\ last.op \in {"remove", "move", "reorder", "update", "nickname", "convert"}
   /\ UniqueIds(last.before.plan))
    => UniqueIds(plan)

-----------------------------------------------------------------------------
(* Properties of the handlers called directly, continued *)

Abs(x) == IF x < 0 THEN -x ELSE x

\* n is d converted from the unit and rounded to one decimal place: a whole
\* number of tenths, half a tenth at most from d * 0.621371 or d / 0.621371
IsConverted(n, d, unit) ==
  /\ n % 10 = 0
  /\ IF unit = "km"
     THEN Abs(n * KmToMilesScale - d * KmToMiles) <= 5 * KmToMilesScale
     ELSE Abs(n * KmToMiles - d * KmToMilesScale) <= 5 * KmToMiles

\* the workout at a position of a plan
RunAt(p, c) == p.weeks[c[1]].days[c[2]][c[3]]

\* every workout measured by distance carries the converted distance
DistancesConverted ==
  \A c \in Positions(last.before.plan) :
    LET old == RunAt(last.before.plan, c)
    IN  (old.measurementType = "distance" /\ old.distance # Undefined) =>
          /\ IsConverted(RunAt(plan, c).distance, old.distance,
                         last.before.formValues.unit)
          /\ [RunAt(plan, c) EXCEPT !.distance = old.distance] = old

\* every workout measured by time is as it was
TimedUntouched ==
  \A c \in Positions(last.before.plan) :
    RunAt(last.before.plan, c).measurementType = "time" =>
      RunAt(plan, c) = RunAt(last.before.plan, c)

\* C14: a conversion replaces the distance of every workout measured by
\* distance, in every week, with the converted value rounded to one decimal
\* place, and leaves every workout measured by time untouched in all fields.
C14_ConvertsDistances ==
  (last.op = "convert" /\ ~last.thrown) =>
    /\ Positions(plan) = Positions(last.before.plan)
    /\ DistancesConverted
    /\ TimedUntouched

\* C15: after a conversion every week's weeklyTotal is the fold over the
\* stored converted distances, rounded to a whole unit: recalculateWeeklyTotal
\* of the converted week returns the same total.
C15_ConvertedTotalIsFold ==
  (last.op = "convert" /\ ~last.thrown) =>
    \A i \in 1..Len(plan.weeks) :
      plan.weeks[i].weeklyTotal = recalculateWeeklyTotal(plan.weeks[i]).weeklyTotal

\* C16: a conversion from km to miles followed by one from miles to km gives
\* every distance-measured workout a distance within 0.1 km of its original.
C16_RoundTripWithinTenth ==
  (last.op = "convert" /\ now = 2 /\ formValues.unit = "km" /\ ~last.thrown) =>
    \A c \in Positions(last.start) :
      LET old == RunAt(last.start, c)
      IN  (old.measurementType = "distance" /\ old.distance # Undefined) =>
            Abs(RunAt(plan, c).distance - old.distance) <= 10

\* a sequence without its element at the 0-based index i
Without(s, i) == [k \in 1..(Len(s) - 1) |-> IF k <= i THEN s[k] ELSE s[k + 1]]

\* the plan but for the bucket the last call addressed
OtherBuckets(p) ==
  [i \in 1..Len(p.weeks) |->
     [k \in DOMAIN p.weeks[i].days |->
        IF i = last.weekIndex + 1 /\ k = last.day THEN <<>> ELSE p.weeks[i].days[k]]]

Totals(p) == [i \in 1..Len(p.weeks) |-> p.weeks[i].weeklyTotal]

\* C17: a reorder within a day changes no weeklyTotal and not the set of
\* workouts of the bucket: the workout at fromIndex is at toIndex afterwards
\* and the other workouts keep their relative order.
C17_ReorderKeepsTotal ==
  (last.op = "reorder" /\ ~last.thrown) =>
    /\ Totals(plan) = Totals(last.before.plan)
    /\ OtherBuckets(plan) = OtherBuckets(last.before.plan)
    /\ Len(BucketAfter) = Len(BucketBefore)
    /\ {BucketAfter[k] : k \in 1..Len(BucketAfter)}
         = {BucketBefore[k] : k \in 1..Len(BucketBefore)}
    /\ BucketAfter[last.toRunIndex + 1] = BucketBefore[last.runIndex + 1]
    /\ Without(BucketAfter, last.toRunIndex) = Without(BucketBefore, last.runIndex)

\* the first workout of a bucket of three was moved to its end
C17_Witness ==
  /\ last.op = "reorder"
  /\ ~last.thrown
  /\ Len(BucketBefore) = 3
  /\ last.runIndex = 0
  /\ last.toRunIndex = 2
  /\ BucketAfter # BucketBefore

\* one workout was appended to the addressed bucket, nothing else moved, and
\* the week's total was recomputed
Appended ==
  /\ Len(BucketAfter) = Len(BucketBefore) + 1
  /\ SubSeq(BucketAfter, 1, Len(BucketBefore)) = BucketBefore
  /\ OtherBuckets(plan) = OtherBuckets(last.before.plan)
  /\ LET week == plan.weeks[last.weekIndex + 1]
     IN  week.weeklyTotal = recalculateWeeklyTotal(week).weeklyTotal

\* the fields of the workout added for a given argument: the caller's time and
\* no distance when a time is supplied (and the argument does not itself say
\* distance); else no distance or zero for Strength; else measured by
\* distance, the caller's distance or 5
AddedAsSpecified(run, workout) ==
  /\ run.type = workout.type
  /\ IF workout.time # Undefined /\ workout.measurementType # "distance"
     THEN run.time = workout.time /\ run.distance = Undefined
     ELSE IF workout.type = "Strength"
     THEN run.distance \in {0, Undefined}
     ELSE workout.measurementType # "time" =>
            /\ run.measurementType = "distance"
            /\ run.distance = IF workout.distance # Undefined
                              THEN workout.distance ELSE 500

\* C18: an add appends exactly one new workout at the end of the addressed
\* bucket, with measurementType distance and distance 5 by default, unless
\* the type is Strength or the caller supplies a time (then the workout
\* carries that time and no distance), and recomputes that week's total.
C18_AddAppends ==
  (last.op = "add" /\ ~last.thrown) =>
    (Appended /\ AddedAsSpecified(Affected, last.workout))

\* the workout the last update addressed, as it was
Target == BucketBefore[last.runIndex + 1]

\* an update that switches a distance workout to time and gives the time
ToTime ==
  /\ last.op = "update"
  /\ ~last.thrown
  /\ Target.measurementType = "distance"
  /\ Target.distance # Undefined
  /\ last.updates.measurementType = "time"
  /\ last.updates.time # Undefined
  /\ last.updates.distance = Undefined

\* an update that switches a time workout to distance and gives the distance
ToDistance ==
  /\ last.op = "update"
  /\ ~last.thrown
  /\ Target.measurementType = "time"
  /\ last.updates.measurementType = "distance"
  /\ last.updates.distance # Undefined
  /\ last.updates.time = Undefined

\* C19: an update that changes measurementType clears the opposite field:
\* a distance workout switched to time with a time t has no distance and the
\* time t, and the week's recomputed weeklyTotal no longer includes its
\* distance; a time workout switched to distance has no time.
C19_SwitchClearsOpposite ==
  /\ ToTime =>
       /\ Affected = [Target EXCEPT !.measurementType = "time",
                                   !.distance = Undefined,
                                   !.time = last.updates.time]
       /\ LET old == last.before.plan.weeks[last.weekIndex + 1]
          IN  plan.weeks[last.weekIndex + 1].weeklyTotal =
                MathRound(DaysTotal(old.days, DOMAIN old.days) - Target.distance)
  /\ ToDistance =>
       Affected = [Target EXCEPT !.measurementType = "distance",
                                 !.time = Undefined,
                                 !.distance = last.updates.distance]

\* the 12 km workout of a week was switched to 45 minutes and the week's total
\* went down
C19_Witness ==
  /\ ToTime
  /\ Target.distance = 1200
  /\ last.updates.time = 45
  /\ plan.weeks[last.weekIndex + 1].weeklyTotal
       < last.before.plan.weeks[last.weekIndex + 1].weeklyTotal

\* C20: a remove at a valid position deletes exactly the workout at that
\* position: the later workouts of the bucket shift down by one in their
\* order, every other bucket is unchanged, and the week's total is recomputed.
C20_RemoveDeletesOne ==
  (last.op = "remove" /\ ~last.thrown) =>
    /\ BucketAfter = Without(BucketBefore, last.runIndex)
    /\ Len(BucketAfter) = Len(BucketBefore) - 1
    /\ OtherBuckets(plan) = OtherBuckets(last.before.plan)
    /\ LET week == plan.weeks[last.weekIndex + 1]
       IN  week.weeklyTotal = MathRound(DaysTotal(week.days, DOMAIN week.days))
    /\ \A i \in 1..Len(plan.weeks) :
         i # last.weekIndex + 1 => plan.weeks[i] = last.before.plan.weeks[i]

\* the first workout of a bucket of three was removed and the total went down
C20_Witness ==
  /\ last.op = "remove"
  /\ ~last.thrown
  /\ Len(BucketBefore) = 3
  /\ last.runIndex = 0
  /\ BucketAfter = Tail(BucketBefore)
  /\ plan.weeks[last.weekIndex + 1].weeklyTotal
       < last.before.plan.weeks[last.weekIndex + 1].weeklyTotal

\* C21: an update of the nickname changes only the nickname of the addressed
\* workout: an empty string is stored as absent, and the workout's other
\* fields, every other workout, the order of the buckets and every
\* weeklyTotal are as they were.
C21_NicknameOnly ==
  (last.op = "nickname" /\ ~last.thrown) =>
    /\ Affected = [Target EXCEPT !.nickname = IF last.nickname = "" THEN NoText
                                              ELSE last.nickname]
    /\ Affected.nickname # ""
    /\ Len(BucketAfter) = Len(BucketBefore)
    /\ \A k \in 1..Len(BucketBefore) :
         k # last.runIndex + 1 => BucketAfter[k] = BucketBefore[k]
    /\ OtherBuckets(plan) = OtherBuckets(last.before.plan)
    /\ Totals(plan) = Totals(last.before.plan)

\* a workout that had a nickname was given the empty string
C21_Witness ==
  /\ last.op = "nickname"
  /\ ~last.thrown
  /\ last.nickname = ""
  /\ Target.nickname = "x"
  /\ Affected.nickname = NoText

\* C22: import then export is a round trip: after the import of a document
\* the session exported, with no edit since, the export yields the document's
\* plan content (workouts, order, weekly totals) and the document's source.
C22_RoundTrip ==
  (last.op = "import" /\ last.exported) =>
    /\ ~exportPlanSchema(Render).null
    /\ exportPlanSchema(Render).plan = last.payload.plan
    /\ exportPlanSchema(Render).source = last.payload.source

\* the structural violations of a file's weeks: a key of days that is not one
\* of the seven days, a workout whose type is not of the closed set
BadDayKeys(json) ==
  {c \in (1..Len(json.plan.weeks)) \X {"Mon", "Tue", "Wed", "Thu", "Fri", "Sat",
                                       "Sun", "Weds"} :
     /\ c[2] \in DOMAIN json.plan.weeks[c[1]].days
     /\ c[2] \notin {"Mon", "Tue", "Wed", "Thu", "Fri", "Sat", "Sun"}}

BadTypes(json) ==
  {c \in (1..Len(json.plan.weeks)) \X validDays \X (1..3) :
     /\ c[2] \in DOMAIN json.plan.weeks[c[1]].days
     /\ c[3] <= Len(json.plan.weeks[c[1]].days[c[2]])
     /\ json.plan.weeks[c[1]].days[c[2]][c[3]] # NullRun
     /\ json.plan.weeks[c[1]].days[c[2]][c[3]].type \notin validRunTypes}

HasWeeks(json) == ~json.null /\ ~json.plan.null /\ json.plan.kind = "array"

\* C23: validation returns a result for any input and aggregates: an import
\* whose file has structural violations ends without an exception, is
\* refused, and its error reports every violation of every week.
C23_ValidationAggregates ==
  last.op = "import" =>
    /\ validateSchema(last.payload) <=> schemaIssues(last.payload) = {}
    /\ ~validateSchema(last.payload) =>
         last.rejected /\ ~last.thrown /\ last.errors # {}
    /\ HasWeeks(last.payload) =>
         /\ \A c \in BadDayKeys(last.payload) :
              <<"days", c[1], c[2], 0>> \in last.errors
         /\ \A c \in BadTypes(last.payload) :
              <<"run", c[1], c[2], c[3]>> \in last.errors

\* a file with an invalid day key in one week and an unknown type in another
C23_Witness ==
  /\ last.op = "import"
  /\ last.rejected
  /\ HasWeeks(last.payload)
  /\ \E a \in BadDayKeys(last.payload) : \E b \in BadTypes(last.payload) :
       /\ a[1] # b[1]
       /\ <<"days", a[1], a[2], 0>> \in last.errors
       /\ <<"run", b[1], b[2], b[3]>> \in last.errors

SevenDays(p) ==
  \A i \in 1..Len(p.weeks) :
    DOMAIN p.weeks[i].days = {"Mon", "Tue", "Wed", "Thu", "Fri", "Sat", "Sun"}

Empty ==
  /\ formValues.null
  /\ plan.null
  /\ schema.null
  /\ step = "configure"

\* C25: the session starts empty, and resetSession returns it to empty from
\* any state: afterwards formValues, plan and schema are null and the step is
\* configure, whatever came before the reset.
C25_ResetEmpties == last.op \in {"init", "reset"} => Empty

\* a reset of a session whose document had been edited
C25_Witness ==
  /\ last.op = "reset"
  /\ ~last.before.formValues.null
  /\ ~last.before.plan.null
  /\ Len(last.before.plan.weeks) > 0
  /\ ~last.before.schema.null
  /\ last.before.schema.source = "edited"
  /\ Empty

SameWeekMove ==
  /\ last.op = "move"
  /\ ~last.thrown
  /\ last.weekIndex = last.toWeekIndex
  /\ last.day # last.toDay

\* the week of a same-week move, before and after it
MovedWeekBefore == last.before.plan.weeks[last.weekIndex + 1]
MovedWeekAfter == plan.weeks[last.weekIndex + 1]

\* the total of the buckets in which the moved workout is in neither bucket
IntermediateTotal ==
  RoundedSum([MovedWeekBefore EXCEPT
                !.days[last.day] = Without(@, last.runIndex)])

\* C26 as stated: a same-week cross-day move computes the week's total exactly
\* once, from the buckets after removal and insertion.
C26_TotalOnce ==
  SameWeekMove =>
    last.computed = <<<<last.weekIndex, RoundedSum(MovedWeekAfter)>>>>

\* C26: a same-week cross-day move computes the week's total twice: first from
\* the intermediate buckets, in which the workout is in neither bucket, then
\* from the buckets after the insertion; the week it returns carries the
\* second total, never the intermediate one.
C26_TotalTwice ==
  SameWeekMove =>
    /\ last.computed = << <<last.weekIndex, IntermediateTotal>>,
                          <<last.weekIndex, RoundedSum(MovedWeekAfter)>> >>
    /\ MovedWeekAfter.weeklyTotal = RoundedSum(MovedWeekAfter)

\* a workout with a distance was moved to another day of its week, and the
\* intermediate total differs from the final one
C26_Witness ==
  /\ SameWeekMove
  /\ Len(last.computed) = 2
  /\ IntermediateTotal # RoundedSum(MovedWeekAfter)
  /\ MovedWeekAfter.weeklyTotal = RoundedSum(MovedWeekAfter)

\* C27: no mutation operation (update, nickname update, add, remove, reorder,
\* move) modifies the plan value it started from: the weeks and the day
\* buckets of the previous plan are, after the operation, what a copy taken
\* before it holds.
C27_StartUntouched ==
  (last.op \in Edits /\ ~last.thrown) => last.old = last.before.plan.weeks

\* the null-filtered buckets of a plan: its weeks, workouts, order and totals
Content(p) ==
  [i \in 1..Len(p.weeks) |->
     [week |-> p.weeks[i].week,
      weeklyTotal |-> p.weeks[i].weeklyTotal,
      days |-> [k \in DOMAIN p.weeks[i].days |->
                  SelectSeq(p.weeks[i].days[k], LAMBDA e : e # NullRun)]]]

\* C28: after every operation of the coordinator (generateAndSetPlan,
\* updatePlan, importPlanSchema with its early return and its exceptions,
\* resetSession) the plan slot and the schema slot agree: schema is null
\* exactly when plan is null, and otherwise schema.plan has the weeks,
\* workouts, order and totals of the null-filtered plan.
C28_SlotsAgree ==
  last.op # "init" =>
    /\ schema.null <=> plan.null
    /\ ~plan.null => Content(schema.plan) = Content(plan)

\* every entry of every bucket is a workout, so that a workout's index in the
\* displayed bucket is its index in the stored bucket
OnlyWorkouts(p) ==
  \A i \in 1..Len(p.weeks) : \A k \in DOMAIN p.weeks[i].days :
    /\ \A j \in 1..Len(p.weeks[i].days[k]) : p.weeks[i].days[k][j] # NullRun
    /\ Displayed(p.weeks[i], k) = p.weeks[i].days[k]

\* C29: from a plan whose buckets hold only workouts, no mutation with valid
\* arguments (add, update, remove, reorder, move, convert) puts a null or
\* undefined entry into a bucket of the plan slot.
C29_NoHoles ==
  (/\ last.op \in Edits \cup {"convert"}
   /\ ~last.before.plan.null
   /\ OnlyWorkouts(last.before.plan)
   /\ ~plan.null) => OnlyWorkouts(plan)

\* C30: under the operations of the page, whenever the step is edit or export
\* the plan is not null and has at least one week; a generation or an import
\* that yields a plan without weeks does not leave the session in edit or
\* export.
C30_EditHasWeeks ==
  /\ step \in {"edit", "export"} => (~plan.null /\ Len(plan.weeks) > 0)
  /\ (/\ last.op \in {"generate", "import"}
      /\ ~last.rejected
      /\ ~plan.null
      /\ Len(plan.weeks) = 0) => step = "configure"

\* a session that was edited took, from the configure step, a file whose plan
\* has no week
C30_Witness ==
  /\ last.op = "import"
  /\ ~last.rejected
  /\ ~last.before.plan.null
  /\ Len(last.before.plan.weeks) > 0
  /\ ~plan.null
  /\ Len(plan.weeks) = 0
  /\ step = "configure"
====
